---- MODULE Spec2Model ----
(***************************************************************************)
(* A model of epl::Delegate<RetType,ArgType> and of its partial            *)
(* specialization Delegate<RetType,void> (epDelegate.h).                   *)
(*                                                                         *)
(* A delegate is an object with three members: m_funcList (a vector of     *)
(* targets), m_lock (a lock instance) and m_lockPolicy.  Client threads    *)
(* call the operators of the class; every operator is translated           *)
(* statement by statement, one action per step, so that two threads can    *)
(* interleave inside the operators.                                        *)
(***************************************************************************)
EXTENDS Integers, Sequences, FiniteSets, TLC

\* ------------------------------------------------------------------ bounds
\* The longest target sequence the model lets a vector grow to.
MaxLen == 2

\* ------------------------------------------------------------ the universe
\* Two distinct free functions of the delegate's signature.
Funcs == {"f1", "f2"}
\* What operator+=(const Delegate&) stores: the iterator itself (the address
\* of a slot of right's storage), which is no function of the signature.
IterSlot == "iter"
Values == Funcs \cup {IterSlot}
\* A free function of the signature whose call may fail: it returns, or it
\* throws an exception.
Raiser == "fx"
Callable == Funcs \cup {Raiser}
NoFunc == "nofunc"
\* What a target returns when it is called: a value that names the target.
Result(f) == <<"result", f>>
\* The value of an Invoke that flowed off the end of the function.
Indeterminate == <<"indeterminate">>
NoValue == <<"novalue">>

\* The two class templates: Delegate<RetType,ArgType> and Delegate<RetType,void>.
Forms == {"general", "void"}

\* The named delegates of the client program, and one temporary per thread
\* (the local `ret` of operator+ and operator-, which is the returned object).
Objs == {"a", "b"}
SeqThreads == {1}
Threads == {1, 2}
Tmp(t) == IF t = 1 THEN "r1" ELSE "r2"
Temps == {Tmp(t) : t \in Threads}
AllObjs == Objs \cup Temps
NoObj == "noobj"

\* enum LockPolicy
LOCK_POLICY_CRITICALSECTION == "LOCK_POLICY_CRITICALSECTION"
LOCK_POLICY_MUTEX == "LOCK_POLICY_MUTEX"
LOCK_POLICY_NONE == "LOCK_POLICY_NONE"
Policies == {LOCK_POLICY_CRITICALSECTION, LOCK_POLICY_MUTEX, LOCK_POLICY_NONE}
NoPolicy == "unconstructed"
\* No thread holds the lock.
Free == 0

VARIABLES
    form,          \* which class template the program instantiates
    m_funcList,    \* object -> the storage its vector member owns
    heap,          \* storage -> the sequence of targets it holds
    allocated,     \* storage -> the vector has allocated memory for targets
    m_lock,        \* object -> its lock instance
    held,          \* lock instance -> the thread that holds it, or Free
    m_lockPolicy,  \* object -> its policy tag
    frame,         \* thread -> the operator call it is in
    ret,           \* thread -> how its last call ended
    started        \* thread -> 1 once it has made its call (two-thread specification)

vars == <<form, m_funcList, heap, allocated, m_lock, held, m_lockPolicy, frame, ret, started>>

\* ------------------------------------------------------------ helpers
Range(s) == {s[i] : i \in 1..Len(s)}
\* The target sequence of delegate o.
List(o) == heap[m_funcList[o]]
\* vector::erase(position): the elements after the position move down by one.
Erase(s, i) == [k \in 1..(Len(s) - 1) |-> IF k < i THEN s[k] ELSE s[k + 1]]
\* All sequences over S of length at most n.
SeqsUpTo(S, n) == UNION {[1..k -> S] : k \in 0..n}

NoRet == [status |-> "none", value |-> NoValue]
NoSeq == <<"noseq">>

\* The operators that change the members of the delegate they are called on.
MutatingOps ==
    {"AssignDelegate", "AssignFunc", "AppendFunc", "AppendDelegate",
     "RemoveFunc", "RemoveDelegate"}
\* operator+ and operator-, which work on a copy and return it.
PureOps == {"CombineFunc", "CombineDelegate", "SubtractFunc", "SubtractDelegate"}

\* A thread's call: op is the operator, this the delegate it was called on,
\* self the delegate whose members the running body works on (this, or the
\* local ret of operator+ / operator-), func and right the argument, iter and
\* rightIter the vector iterators as positions (1 is begin(), Len+1 is end()),
\* calls the targets Invoke has called, seen the targets of right the loop
\* of operator+=(const Delegate&) has stood on.  Two fields record the
\* client's program around the call: old is the sequence of this when the
\* call was made, prev the call the thread made just before (see Prev).
Frame(op, pc, this, self, func, right, old, prev) ==
    [op |-> op, pc |-> pc, this |-> this, self |-> self, func |-> func,
     right |-> right, iter |-> 1, rightIter |-> 1, idx |-> 0,
     calls |-> <<>>, seen |-> <<>>, old |-> old, prev |-> prev]
IdleFrame == Frame("none", "idle", NoObj, NoObj, NoFunc, NoObj, NoSeq, <<>>)

\* What a call remembers of the call thread t has just returned from:
\* d -= f after d += f remembers the sequence d held before the append; a
\* mutating call on a delegate that was just copy-constructed, or just
\* copied from, remembers the two delegates of the copy.
Prev(t, op, this, func) ==
    LET last == frame[t]
    IN  CASE /\ last.pc = "done" /\ last.op = "AppendFunc" /\ op = "RemoveFunc"
             /\ last.this = this /\ last.func = func ->
                 <<"AppendFunc", last.old>>
          [] /\ last.pc = "done" /\ last.op = "CopyConstruct" /\ op \in MutatingOps
             /\ this \in {last.this, last.right} ->
                 <<"CopyConstruct", last.this, last.right>>
          [] OTHER -> <<>>
MkFrame(t, op, pc, this, self, func, right) ==
    Frame(op, pc, this, self, func, right, List(this), Prev(t, op, this, func))

\* The program has stopped on a fault (an access violation, a failed
\* checked-iterator assertion): no thread runs any more.
Crashed == \E t \in Threads : ret[t].status = "fault"
\* Thread t is between two calls.
AtRest(t) == frame[t].pc \in {"idle", "done", "raised"} /\ ~Crashed
\* No thread is inside a call that names delegate o.
Unused(o) ==
    \A u \in Threads :
        \/ frame[u].pc \in {"idle", "done", "raised"}
        \/ (frame[u].this # o /\ frame[u].right # o)

\* Another thread than t is inside the locked body of an operator that
\* writes the vector of delegate o.  A read of that vector by t, which holds
\* no lock of o, races with the writes: a data race.
RacedOn(t, o) ==
    \E u \in Threads \ {t} :
        /\ frame[u].pc \in {"copy", "clear", "push", "app", "rem", "remo", "remi"}
        /\ m_funcList[frame[u].self] = m_funcList[o]

\* ------------------------------------------------------------ construction
\* Delegate(LockPolicy) and Delegate(func, LockPolicy): the vector owns its
\* storage, the lock is a new instance.
OwnStorage(o) == o
NewLock(o) == o

TypeOK ==
    /\ form \in Forms
    /\ m_funcList \in [AllObjs -> AllObjs]
    /\ \A o \in AllObjs : heap[o] \in Seq(Values \cup {Raiser})
    /\ \A o \in AllObjs : heap[o] # <<>> => allocated[o]
    /\ m_lock \in [AllObjs -> AllObjs]
    /\ held \in [AllObjs -> Threads \cup {Free}]
    /\ m_lockPolicy \in [AllObjs -> Policies \cup {NoPolicy}]

\* The members of every delegate after the client's constructors have run:
\* each named delegate was built by Delegate(policy) or Delegate(func, policy).
Constructed(lists, policies) ==
    /\ form \in Forms
    /\ m_funcList = [o \in AllObjs |-> OwnStorage(o)]
    /\ \E init \in [Objs -> lists] :
           /\ heap = [o \in AllObjs |-> IF o \in Objs THEN init[o] ELSE <<>>]
           /\ allocated = [o \in AllObjs |-> o \in Objs /\ init[o] # <<>>]
    /\ m_lock = [o \in AllObjs |-> NewLock(o)]
    /\ held = [o \in AllObjs |-> Free]
    /\ \E pol \in policies :
           m_lockPolicy = [o \in AllObjs |-> IF o \in Objs THEN pol[o] ELSE NoPolicy]
    /\ frame = [t \in Threads |-> IdleFrame]
    /\ ret = [t \in Threads |-> NoRet]
    /\ started = [t \in Threads |-> 0]

\* One client thread never waits for a lock, so the policy is only a tag
\* there: delegate a is built with a lock, delegate b with none.
SeqPolicies ==
    {pol \in [Objs -> Policies] :
        /\ pol["a"] = LOCK_POLICY_CRITICALSECTION
        /\ pol["b"] = LOCK_POLICY_NONE}

Init == Constructed(SeqsUpTo(Funcs, 1), SeqPolicies)

\* ------------------------------------------------------------ calls
\* The temporary of the previous call is destroyed when the next call starts.
DropTmp(t) ==
    /\ heap' = [heap EXCEPT ![OwnStorage(Tmp(t))] = <<>>]
    /\ allocated' = [allocated EXCEPT ![OwnStorage(Tmp(t))] = FALSE]
    /\ m_funcList' = [m_funcList EXCEPT ![Tmp(t)] = OwnStorage(Tmp(t))]
    /\ m_lock' = [m_lock EXCEPT ![Tmp(t)] = NewLock(Tmp(t))]
    /\ m_lockPolicy' = [m_lockPolicy EXCEPT ![Tmp(t)] = NoPolicy]

\* Thread t enters an operator that works on the delegate it was called on.
Call(t, fr) ==
    /\ AtRest(t)
    /\ frame' = [frame EXCEPT ![t] = fr]
    /\ ret' = [ret EXCEPT ![t] = NoRet]
    /\ DropTmp(t)
    /\ UNCHANGED <<form, held>>

\* The body of an operator moves from one statement to the next.
Goto(t, pc) == frame' = [frame EXCEPT ![t].pc = pc]

\* LockObj lock(m_lock): the scoped acquisition at the top of every mutating
\* operator.  A critical section or a mutex is taken when it is free; NoLock
\* takes nothing.
Lockable(o) == m_lockPolicy[o] \in {LOCK_POLICY_CRITICALSECTION, LOCK_POLICY_MUTEX}
LockObjAcquire(t, o) ==
    IF Lockable(o)
    THEN /\ held[m_lock[o]] = Free
         /\ held' = [held EXCEPT ![m_lock[o]] = t]
    ELSE UNCHANGED held
\* ~LockObj(): the lock is released when the scope is left.
LockObjRelease(t, o) ==
    IF Lockable(o) /\ held[m_lock[o]] = t
    THEN held' = [held EXCEPT ![m_lock[o]] = Free]
    ELSE UNCHANGED held

\* The pc a mutating operator's body starts at once the lock is taken.
BodyOf(op) ==
    CASE op = "AssignDelegate" -> "copy"
      [] op = "AssignFunc" -> "clear"
      [] op \in {"AppendFunc", "CombineFunc"} -> "push"
      [] op \in {"AppendDelegate", "CombineDelegate", "PrependFunc"} -> "app"
      [] op \in {"RemoveFunc", "SubtractFunc"} -> "rem"
      [] op \in {"RemoveDelegate", "SubtractDelegate"} -> "remo"

\* The lock statement of a mutating operator.
Acquire(t) ==
    /\ ~Crashed
    /\ frame[t].pc = "lock"
    /\ LockObjAcquire(t, frame[t].self)
    /\ Goto(t, BodyOf(frame[t].op))
    /\ UNCHANGED <<form, m_funcList, heap, allocated, m_lock, m_lockPolicy, ret>>

\* return *this (or return ret): the scope ends, the lock is released.
Return(t) ==
    /\ ~Crashed
    /\ frame[t].pc = "return"
    /\ LockObjRelease(t, frame[t].self)
    /\ Goto(t, "done")
    /\ ret' = [ret EXCEPT ![t] = [status |-> "ok", value |-> NoValue]]
    /\ UNCHANGED <<form, m_funcList, heap, allocated, m_lock, m_lockPolicy>>

\* A fault stops the program inside the call.
Fault(t, why) ==
    /\ frame' = [frame EXCEPT ![t].pc = "fault"]
    /\ ret' = [ret EXCEPT ![t] = [status |-> "fault", value |-> <<why>>]]

\* ------------------------------------------------------------ copy constructor
\* Delegate(const Delegate &orig): m_funcList=orig.m_funcList copies the
\* vector into the new object's own storage; m_lockPolicy=orig.m_lockPolicy;
\* m_lock is a new lock of that policy.
\* (changed: the copy shares the source's storage)
CopyStorageShared(dst, orig) == m_funcList[orig]
CopyStorage(dst, orig) == OwnStorage(dst)
\* (changed: the copy takes over the source's lock instance)
CopyLockShared(dst, orig) == m_lock[orig]
CopyLock(dst, orig) == NewLock(dst)
CopyConstructor(dst, orig) ==
    /\ m_lockPolicy' = [m_lockPolicy EXCEPT ![dst] = m_lockPolicy[orig]]
    /\ m_funcList' = [m_funcList EXCEPT ![dst] = CopyStorage(dst, orig)]
    /\ heap' = [heap EXCEPT ![CopyStorage(dst, orig)] = List(orig)]
    /\ allocated' = [allocated EXCEPT ![CopyStorage(dst, orig)] = List(orig) # <<>>]
    /\ m_lock' = [m_lock EXCEPT ![dst] = CopyLock(dst, orig)]

\* Delegate dst(orig): a named delegate is built as a copy of another.
CopyConstruct(t, objs) ==
    \E dst \in objs, orig \in Objs :
        /\ AtRest(t)
        /\ dst # orig
        /\ Unused(dst)
        /\ CopyConstructor(dst, orig)
        /\ frame' = [frame EXCEPT ![t] =
                        Frame("CopyConstruct", "done", dst, dst, NoFunc, orig, NoSeq, <<>>)]
        /\ ret' = [ret EXCEPT ![t] = [status |-> "ok", value |-> NoValue]]
        /\ UNCHANGED <<form, held>>

\* Thread t enters operator+ or operator-: Delegate ret(*this); then the
\* compound operator runs on ret.
\* (changed: operator+ and operator- work on this itself)
RetOfThis(t, this) == this
RetOf(t, this) == Tmp(t)
CallPure(t, op, this, f, right) ==
    /\ AtRest(t)
    /\ CopyConstructor(Tmp(t), this)
    /\ frame' = [frame EXCEPT ![t] = MkFrame(t, op, "lock", this, RetOf(t, this), f, right)]
    /\ ret' = [ret EXCEPT ![t] = NoRet]
    /\ UNCHANGED <<form, held>>

\* ------------------------------------------------------------ operator=
\* Delegate & operator=(const Delegate &b): nothing is done when this is b.
AssignDelegate(t, objs) ==
    \E o \in objs, b \in Objs :
        IF o # b
        THEN Call(t, MkFrame(t, "AssignDelegate", "lock", o, o, NoFunc, b))
        ELSE /\ AtRest(t)
             /\ frame' = [frame EXCEPT ![t] =
                             MkFrame(t, "AssignDelegate", "done", o, o, NoFunc, b)]
             /\ ret' = [ret EXCEPT ![t] = [status |-> "ok", value |-> NoValue]]
             /\ DropTmp(t)
             /\ UNCHANGED <<form, held>>

\* The policy tag of this after operator=(b): the body assigns the vector
\* only, m_lockPolicy and m_lock are not written.
\* (changed: the tag is assigned from b with the vector)
AssignedPolicyOfSource(this, b) == m_lockPolicy[b]
AssignedPolicy(this, b) == m_lockPolicy[this]

\* m_funcList=b.m_funcList; b's vector is read under the lock of this only:
\* when another thread is writing it the read is a data race, and the copy
\* is made or the program faults.
AssignDelegateCopy(t) ==
    /\ ~Crashed
    /\ frame[t].pc = "copy"
    /\ \/ /\ heap' = [heap EXCEPT ![m_funcList[frame[t].self]] = List(frame[t].right)]
          /\ allocated' = [allocated EXCEPT ![m_funcList[frame[t].self]] =
                               @ \/ List(frame[t].right) # <<>>]
          /\ m_lockPolicy' = [m_lockPolicy EXCEPT ![frame[t].self] =
                                  AssignedPolicy(frame[t].self, frame[t].right)]
          /\ Goto(t, "return")
          /\ UNCHANGED ret
       \/ /\ RacedOn(t, frame[t].right)
          /\ Fault(t, "data race")
          /\ UNCHANGED <<heap, allocated, m_lockPolicy>>
    /\ UNCHANGED <<form, m_funcList, m_lock, held>>

\* (changed: the body runs without LockObj lock(m_lock))
AssignFuncUnlocked(t, objs, funcs) ==
    \E o \in objs, f \in funcs :
        Call(t, MkFrame(t, "AssignFunc", "clear", o, o, f, NoObj))
\* Delegate & operator=(RetType (*func)(ArgType))
AssignFunc(t, objs, funcs) ==
    \E o \in objs, f \in funcs :
        Call(t, MkFrame(t, "AssignFunc", "lock", o, o, f, NoObj))

\* m_funcList.clear();
AssignFuncClear(t) ==
    /\ ~Crashed
    /\ frame[t].pc = "clear"
    /\ heap' = [heap EXCEPT ![m_funcList[frame[t].self]] = <<>>]
    /\ UNCHANGED allocated
    /\ Goto(t, "push")
    /\ UNCHANGED <<form, m_funcList, m_lock, held, m_lockPolicy, ret>>

\* m_funcList.push_back(func);   (operator=(func), operator+=(func))
PushBack(t) ==
    /\ ~Crashed
    /\ frame[t].pc = "push"
    /\ heap' = [heap EXCEPT ![m_funcList[frame[t].self]] = Append(@, frame[t].func)]
    /\ allocated' = [allocated EXCEPT ![m_funcList[frame[t].self]] = TRUE]
    /\ Goto(t, "return")
    /\ UNCHANGED <<form, m_funcList, m_lock, held, m_lockPolicy, ret>>

\* ------------------------------------------------------------ operator+=, operator+
\* Delegate & operator+=(RetType (*func)(ArgType))
AppendFunc(t, objs, funcs) ==
    \E o \in objs, f \in funcs :
        /\ Len(List(o)) < MaxLen
        /\ Call(t, MkFrame(t, "AppendFunc", "lock", o, o, f, NoObj))

\* Delegate operator+(RetType (*func)(ArgType)) const
CombineFunc(t, objs, funcs) ==
    \E o \in objs, f \in funcs :
        /\ Len(List(o)) < MaxLen
        /\ CallPure(t, "CombineFunc", o, f, NoObj)

\* Delegate & operator+=(const Delegate &right)
AppendDelegate(t, objs) ==
    \E o \in objs, right \in Objs :
        /\ Len(List(o)) + Len(List(right)) <= MaxLen
        /\ Call(t, MkFrame(t, "AppendDelegate", "lock", o, o, NoFunc, right))

\* Delegate operator+(const Delegate &right) const
CombineDelegate(t, objs) ==
    \E o \in objs, right \in Objs :
        /\ Len(List(o)) + Len(List(right)) <= MaxLen
        /\ CallPure(t, "CombineDelegate", o, NoFunc, right)

\* #define EP_LOCK_POLICY: the policy a constructor call without a policy
\* argument gets; the macro is set for the whole build to one of the three.
EP_LOCK_POLICY == Policies

\* Delegate operator+(RetType (*func)(ArgType), const Delegate &right), the
\* free function: Delegate ret(func); then ret+=right runs on ret.
PrependFunc(t, objs, funcs) ==
    \E right \in objs, f \in funcs, policy \in EP_LOCK_POLICY :
        /\ 1 + Len(List(right)) <= MaxLen
        /\ AtRest(t)
        /\ m_lockPolicy' = [m_lockPolicy EXCEPT ![Tmp(t)] = policy]
        /\ m_funcList' = [m_funcList EXCEPT ![Tmp(t)] = OwnStorage(Tmp(t))]
        /\ heap' = [heap EXCEPT ![OwnStorage(Tmp(t))] = <<f>>]
        /\ allocated' = [allocated EXCEPT ![OwnStorage(Tmp(t))] = TRUE]
        /\ m_lock' = [m_lock EXCEPT ![Tmp(t)] = NewLock(Tmp(t))]
        /\ frame' = [frame EXCEPT ![t] =
                        MkFrame(t, "PrependFunc", "lock", right, Tmp(t), f, right)]
        /\ ret' = [ret EXCEPT ![t] = NoRet]
        /\ UNCHANGED <<form, held>>

\* The value m_funcList.push_back(iter) stores for the iterator at position
\* i of right's vector: the iterator, not the target *iter it points at.
Pushed(right, i) == IterSlot

\* for(iter=right.m_funcList.begin();iter!=right.m_funcList.end();iter++)
\*     m_funcList.push_back(iter);
\* One turn of the loop.  When right is the vector that is pushed to, end()
\* moves with every push_back, so iter never reaches it, and a push_back
\* that reallocates leaves iter dangling: after the first push the loop goes
\* on from the next position or the program faults.  With iter past end()
\* (right has shrunk under it) the loop runs on through memory that holds no
\* element, which ends in a fault.  right's vector is read under the lock of
\* this only: while another thread is writing it the read is a data race,
\* and the turn is taken or the program faults.
AppendLoop(t) ==
    LET fr == frame[t]
        i == fr.rightIter
        R == List(fr.right)
    IN  /\ ~Crashed
        /\ fr.pc = "app"
        /\ CASE i = Len(R) + 1 ->
                    /\ Goto(t, "return")
                    /\ UNCHANGED <<heap, allocated, ret>>
             [] i > Len(R) + 1 ->
                    /\ Fault(t, "past the end")
                    /\ UNCHANGED <<heap, allocated>>
             [] OTHER ->
                    \/ /\ Len(List(fr.self)) < MaxLen
                       /\ heap' = [heap EXCEPT ![m_funcList[fr.self]] =
                                       Append(@, Pushed(fr.right, i))]
                       /\ allocated' = [allocated EXCEPT ![m_funcList[fr.self]] = TRUE]
                       /\ frame' = [frame EXCEPT ![t].rightIter = i + 1,
                                                 ![t].seen = Append(@, R[i])]
                       /\ UNCHANGED ret
                    \/ /\ m_funcList[fr.self] = m_funcList[fr.right]
                       /\ i > 1
                       /\ Fault(t, "dangling iterator")
                       /\ UNCHANGED <<heap, allocated>>
                    \/ /\ RacedOn(t, fr.right)
                       /\ Fault(t, "data race")
                       /\ UNCHANGED <<heap, allocated>>
        /\ UNCHANGED <<form, m_funcList, m_lock, held, m_lockPolicy>>

\* ------------------------------------------------------------ operator-=, operator-
\* Delegate & operator-=(RetType (*func)(ArgType))
RemoveFunc(t, objs, funcs) ==
    \E o \in objs, f \in funcs :
        Call(t, MkFrame(t, "RemoveFunc", "lock", o, o, f, NoObj))

\* Delegate operator-(RetType (*func)(ArgType)) const
SubtractFunc(t, objs, funcs) ==
    \E o \in objs, f \in funcs : CallPure(t, "SubtractFunc", o, f, NoObj)

\* Delegate & operator-=(const Delegate &right)
RemoveDelegate(t, objs) ==
    \E o \in objs, right \in Objs :
        Call(t, MkFrame(t, "RemoveDelegate", "lock", o, o, NoFunc, right))

\* Delegate operator-(const Delegate &right) const
SubtractDelegate(t, objs) ==
    \E o \in objs, right \in Objs : CallPure(t, "SubtractDelegate", o, NoFunc, right)

\* *iter==func and *iter==*rightIter: targets compare by value.
\* (changed: = for ==, the test holds for every target)
MatchesAlways(target, other) == TRUE
Matches(target, other) == target = other

\* Where iter stands after an erase at position i.  The general operator-=
\* (func) assigns erase's result: iter=m_funcList.erase(iter).  The void
\* specialization, and operator-=(const Delegate&) of both templates, call
\* m_funcList.erase(iter) and go on with the invalidated iter.
KeepsEraseResult(f, op) == f = "general" /\ op \in {"RemoveFunc", "SubtractFunc"}

\* The erase step of a remove loop at position i of self's vector: the
\* element is erased; with erase's result assigned the loop goes on at i; with
\* the invalidated iterator it goes on at i (iterators are plain positions) or
\* the program faults (iterator checking is on).
EraseAt(t, i) ==
    \/ /\ heap' = [heap EXCEPT ![m_funcList[frame[t].self]] = Erase(@, i)]
       /\ UNCHANGED <<allocated, frame, ret>>
    \/ /\ ~KeepsEraseResult(form, frame[t].op)
       /\ heap' = [heap EXCEPT ![m_funcList[frame[t].self]] = Erase(@, i)]
       /\ UNCHANGED allocated
       /\ Fault(t, "invalidated iterator")

\* for(iter=m_funcList.begin();iter!=m_funcList.end();)
\*     if(*iter==func) erase else iter++;
\* One turn of the loop of operator-=(func).
RemoveLoop(t) ==
    LET fr == frame[t]
        i == fr.iter
        L == List(fr.self)
    IN  /\ ~Crashed
        /\ fr.pc = "rem"
        /\ CASE i = Len(L) + 1 ->
                    /\ Goto(t, "return")
                    /\ UNCHANGED <<heap, allocated, ret>>
             [] i > Len(L) + 1 ->
                    /\ Fault(t, "past the end")
                    /\ UNCHANGED <<heap, allocated>>
             [] OTHER ->
                    IF Matches(L[i], fr.func)
                    THEN EraseAt(t, i)
                    ELSE /\ frame' = [frame EXCEPT ![t].iter = i + 1]
                         /\ UNCHANGED <<heap, allocated, ret>>
        /\ UNCHANGED <<form, m_funcList, m_lock, held, m_lockPolicy>>

\* for(rightIter=right.m_funcList.begin();rightIter!=right.m_funcList.end();rightIter++)
\* The test of the outer loop of operator-=(const Delegate&), and the start
\* of the inner loop.  With rightIter past end() (the vector it walks has
\* shrunk under it) the loop runs on through memory that holds no element,
\* which ends in a fault.  right's vector is read under the lock of this
\* only: while another thread is writing it the read is a data race, and the
\* loop goes on or the program faults.
RemoveOuter(t) ==
    LET fr == frame[t]
        r == fr.rightIter
        R == List(fr.right)
    IN  /\ ~Crashed
        /\ fr.pc = "remo"
        /\ CASE r = Len(R) + 1 ->
                    /\ Goto(t, "return")
                    /\ UNCHANGED ret
             [] r > Len(R) + 1 ->
                    Fault(t, "past the end")
             [] OTHER ->
                    \/ /\ frame' = [frame EXCEPT ![t].pc = "remi", ![t].iter = 1]
                       /\ UNCHANGED ret
                    \/ /\ fr.right # fr.self
                       /\ RacedOn(t, fr.right)
                       /\ Fault(t, "data race")
        /\ UNCHANGED <<form, m_funcList, heap, allocated, m_lock, held, m_lockPolicy>>

\* for(iter=m_funcList.begin();iter!=m_funcList.end();)
\*     if(*iter==*rightIter) m_funcList.erase(iter); else iter++;
\* One turn of the inner loop.  *rightIter is read at every comparison; when
\* rightIter stands at or past end() the read is of no element: any value, or
\* a fault.
RemoveInner(t) ==
    LET fr == frame[t]
        i == fr.iter
        r == fr.rightIter
        L == List(fr.self)
        R == List(fr.right)
    IN  /\ ~Crashed
        /\ fr.pc = "remi"
        /\ CASE i = Len(L) + 1 ->
                    /\ frame' = [frame EXCEPT ![t].pc = "remo", ![t].rightIter = r + 1]
                    /\ UNCHANGED <<heap, allocated, ret>>
             [] i > Len(L) + 1 ->
                    /\ Fault(t, "past the end")
                    /\ UNCHANGED <<heap, allocated>>
             [] OTHER ->
                    \/ /\ r > Len(R)
                       /\ Fault(t, "past the end")
                       /\ UNCHANGED <<heap, allocated>>
                    \/ \E v \in (IF r <= Len(R) THEN {R[r]} ELSE Values) :
                           IF Matches(L[i], v)
                           THEN EraseAt(t, i)
                           ELSE /\ frame' = [frame EXCEPT ![t].iter = i + 1]
                                /\ UNCHANGED <<heap, allocated, ret>>
        /\ UNCHANGED <<form, m_funcList, m_lock, held, m_lockPolicy>>

\* ------------------------------------------------------------ operator[]
\* EP_VERIFY_OUT_OF_RANGE(condition): the call ends in a range violation
\* unless the condition holds.
EP_VERIFY_OUT_OF_RANGE(condition) == IF condition THEN "ok" ELSE "range_error"

\* idx<m_funcList.size()
\* (changed: the last index is refused)
InRangeOffByOne(idx, L) == idx < Len(L) - 1
InRange(idx, L) == idx < Len(L)

\* FuncType operator[](unsigned int idx) const: begin()+idx, dereferenced.
At(L, idx) ==
    IF EP_VERIFY_OUT_OF_RANGE(InRange(idx, L)) = "ok"
    THEN [status |-> "ok", value |-> L[idx + 1]]
    ELSE [status |-> "range_error", value |-> NoValue]

Index(t, objs) ==
    \E o \in objs, idx \in 0..(MaxLen + 1) :
        /\ AtRest(t)
        /\ frame' = [frame EXCEPT ![t] =
                        [MkFrame(t, "Index", "done", o, o, NoFunc, NoObj) EXCEPT !.idx = idx]]
        /\ ret' = [ret EXCEPT ![t] = At(List(o), idx)]
        /\ DropTmp(t)
        /\ UNCHANGED <<form, held>>

\* ------------------------------------------------------------ operator()
\* RetType operator()(ArgType arg) and RetType operator()()
\* (changed: operator() starts with LockObj lock(m_lock))
InvokeLocked(t, objs) ==
    \E o \in objs : Call(t, MkFrame(t, "Invoke", "lock", o, o, NoFunc, NoObj))
Invoke(t, objs) ==
    \E o \in objs : Call(t, MkFrame(t, "Invoke", "inv", o, o, NoFunc, NoObj))

\* lastIterCheck=iter; lastIterCheck++; lastIterCheck==m_funcList.end()
\* (changed: lastIterCheck++ left out)
IsLastNoIncrement(L, i) == i = Len(L) + 1
IsLast(L, i) == i + 1 = Len(L) + 1

\* The target f throws while operator() calls it.  operator() has no try
\* block: the exception leaves operator() at the call and reaches the caller.
\* (changed: the exception is kept and the loop goes on with the next target)
RaiseAndGoOn(t, f) ==
    /\ frame' = [frame EXCEPT ![t].calls = Append(@, f), ![t].iter = @ + 1]
    /\ ret' = [ret EXCEPT ![t] = [status |-> "exception", value |-> <<f>>]]
Raise(t, f) ==
    /\ frame' = [frame EXCEPT ![t].pc = "raised", ![t].calls = Append(@, f)]
    /\ ret' = [ret EXCEPT ![t] = [status |-> "exception", value |-> <<f>>]]

\* (*iter)(arg), the last call of the invocation: its result is returned.
CallLast(t, f) ==
    IF f \in Callable
    THEN \/ /\ frame' = [frame EXCEPT ![t].pc = "done", ![t].calls = Append(@, f)]
            /\ ret' = [ret EXCEPT ![t] = [status |-> "ok", value |-> Result(f)]]
         \/ /\ f = Raiser
            /\ Raise(t, f)
    ELSE Fault(t, "call of no function")

\* (*iter)(arg) inside the loop: the result is dropped, iter++.
CallNext(t, f) ==
    IF f \in Callable
    THEN \/ /\ frame' = [frame EXCEPT ![t].calls = Append(@, f), ![t].iter = @ + 1]
            /\ UNCHANGED ret
         \/ /\ f = Raiser
            /\ Raise(t, f)
    ELSE Fault(t, "call of no function")

\* One turn of the loop of operator(), or what follows the loop.
\* General template: the loop breaks at the last target and return
\* (*iter)(arg) follows the loop; with iter at end() that reads no element:
\* a fault or, when the vector has memory (erase and clear keep it), a call
\* of whatever target that memory still holds past the end.
\* Void specialization: the last target's result is returned inside the
\* loop; when the loop ends, control flows off the end of the function: the
\* call returns with an indeterminate value, or the program faults.
InvokeLoop(t) ==
    LET fr == frame[t]
        i == fr.iter
        L == List(fr.self)
    IN  /\ ~Crashed
        /\ fr.pc = "inv"
        /\ CASE i = Len(L) + 1 /\ form = "general" ->
                    \/ Fault(t, "past the end")
                    \/ /\ allocated[m_funcList[fr.self]]
                       /\ \E g \in Funcs : CallLast(t, g)
             [] i = Len(L) + 1 /\ form = "void" ->
                    \/ Fault(t, "no return")
                    \/ /\ Goto(t, "done")
                       /\ ret' = [ret EXCEPT ![t] =
                                     [status |-> "ok", value |-> Indeterminate]]
             [] i > Len(L) + 1 ->
                    Fault(t, "past the end")
             [] OTHER ->
                    IF IsLast(L, i) THEN CallLast(t, L[i]) ELSE CallNext(t, L[i])
        /\ UNCHANGED <<form, m_funcList, heap, allocated, m_lock, held, m_lockPolicy>>

\* ------------------------------------------------------------ specifications
\* The steps inside the operators.
Body(t) ==
    \/ Acquire(t)
    \/ AssignDelegateCopy(t)
    \/ AssignFuncClear(t)
    \/ PushBack(t)
    \/ AppendLoop(t)
    \/ RemoveLoop(t)
    \/ RemoveOuter(t)
    \/ RemoveInner(t)
    \/ InvokeLoop(t)
    \/ Return(t)

\* The calls a client thread makes on the delegates objs with the functions
\* funcs.
Begin(t, objs, funcs) ==
    \/ CopyConstruct(t, objs)
    \/ AssignDelegate(t, objs)
    \/ AssignFunc(t, objs, funcs)
    \/ AppendFunc(t, objs, funcs)
    \/ CombineFunc(t, objs, funcs)
    \/ AppendDelegate(t, objs)
    \/ CombineDelegate(t, objs)
    \/ RemoveFunc(t, objs, funcs)
    \/ SubtractFunc(t, objs, funcs)
    \/ RemoveDelegate(t, objs)
    \/ SubtractDelegate(t, objs)
    \/ PrependFunc(t, objs, funcs)
    \/ Invoke(t, objs)

\* One client thread, any sequence of calls.
Next ==
    \E t \in SeqThreads :
        /\ Begin(t, Objs, Funcs) \/ Index(t, Objs) \/ Body(t)
        /\ UNCHANGED started

Spec == Init /\ [][Next]_vars

\* Two client threads, one call each, on delegates that hold what earlier
\* calls left there.  The names a and b are interchangeable, so the first
\* thread's call is on a; the second thread's call is on either.
Alternating(k) == [i \in 1..k |-> IF i % 2 = 1 THEN "f1" ELSE "f2"]
MTLists == {Alternating(k) : k \in 0..MaxLen}
MTPolicies == {[o \in Objs |-> p] : p \in Policies}
MTObjs(t) == IF t = 1 THEN {"a"} ELSE Objs
MTFuncs == Funcs

InitMT == Constructed(MTLists, MTPolicies)

NextMT ==
    \E t \in Threads :
        \/ /\ started[t] = 0
           /\ Begin(t, MTObjs(t), MTFuncs)
           /\ started' = [started EXCEPT ![t] = 1]
        \/ /\ Body(t)
           /\ UNCHANGED started

SpecMT == InitMT /\ [][NextMT]_vars

\* Two client threads under fair scheduling: the first calls operator+= or
\* operator-= on a, the second on b, each with a delegate argument; a thread
\* that is inside a call and can take a step takes one in the end.
CrossObjs(t) == IF t = 1 THEN {"a"} ELSE {"b"}

NextCross ==
    \E t \in Threads :
        \/ /\ started[t] = 0
           /\ AppendDelegate(t, CrossObjs(t)) \/ RemoveDelegate(t, CrossObjs(t))
           /\ started' = [started EXCEPT ![t] = 1]
        \/ /\ Body(t)
           /\ UNCHANGED started

ThreadRuns(t) == Body(t) /\ UNCHANGED started

SpecCross ==
    /\ InitMT
    /\ [][NextCross]_vars
    /\ \A t \in Threads : WF_vars(ThreadRuns(t))

\* The same client program instantiated twice, side by side: program 1 uses
\* Delegate<RetType,ArgType> on delegate a, program 2 Delegate<RetType,void>
\* on delegate b.  Both start from equal delegates; one of them makes a call
\* with a callable (or no) argument and runs it to its end, then the other
\* makes the same call on its own delegate.  form is the template of the
\* program that is running.
FormOf(t) == IF t = 1 THEN "general" ELSE "void"
Own(t) == IF t = 1 THEN "a" ELSE "b"
Other(t) == IF t = 1 THEN 2 ELSE 1

InitPair ==
    /\ Constructed(SeqsUpTo(Funcs, MaxLen), {[o \in Objs |-> LOCK_POLICY_NONE]})
    /\ form = FormOf(1)
    /\ List(Own(1)) = List(Own(2))

PairCall(t) ==
    \/ AssignFunc(t, {Own(t)}, Funcs)
    \/ AppendFunc(t, {Own(t)}, Funcs)
    \/ RemoveFunc(t, {Own(t)}, Funcs)
    \/ CombineFunc(t, {Own(t)}, Funcs)
    \/ SubtractFunc(t, {Own(t)}, Funcs)
    \/ Invoke(t, {Own(t)})
    \/ Index(t, {Own(t)})

\* Program t makes the next call of the client program first.
Lead(t) ==
    /\ started[t] = started[Other(t)]
    /\ AtRest(Other(t))
    /\ form = FormOf(t)
    /\ PairCall(t)
    /\ started' = [u \in Threads |-> IF u = t THEN 1 ELSE 0]

\* Program t makes the call the other program has made and ended.
Follow(t) ==
    /\ started[t] = 0
    /\ started[Other(t)] = 1
    /\ AtRest(Other(t))
    /\ form = FormOf(t)
    /\ PairCall(t)
    /\ frame'[t].op = frame[Other(t)].op
    /\ frame'[t].func = frame[Other(t)].func
    /\ frame'[t].idx = frame[Other(t)].idx
    /\ started' = [started EXCEPT ![t] = 1]

\* A step inside the running program's call.
Run(t) ==
    /\ form = FormOf(t)
    /\ Body(t)
    /\ UNCHANGED started

\* Between two calls the other program is run.
Turn ==
    /\ \A t \in Threads : AtRest(t)
    /\ form' = FormOf(Other(IF form = FormOf(1) THEN 1 ELSE 2))
    /\ UNCHANGED <<m_funcList, heap, allocated, m_lock, held, m_lockPolicy,
                   frame, ret, started>>

NextPair ==
    \/ \E t \in Threads : Lead(t)
    \/ \E t \in Threads : Follow(t)
    \/ \E t \in Threads : Run(t)
    \/ Turn

SpecPair == InitPair /\ [][NextPair]_vars

\* One client thread that builds delegates from callables, one of which may
\* throw, and invokes them.
InitEx == Constructed(SeqsUpTo(Callable, MaxLen), {[o \in Objs |-> LOCK_POLICY_NONE]})

NextEx ==
    \E t \in SeqThreads :
        /\ \/ AssignFunc(t, Objs, Callable)
           \/ AppendFunc(t, Objs, Callable)
           \/ RemoveFunc(t, Objs, Callable)
           \/ Invoke(t, Objs)
           \/ Index(t, Objs)
           \/ Body(t)
        /\ UNCHANGED started

SpecEx == InitEx /\ [][NextEx]_vars

\* ------------------------------------------------------------ claims
\* The sequence s without the elements equal to f.
Without(s, f) == SelectSeq(s, LAMBDA x : x # f)
\* A call has ended: it returned, or the program stopped in it.
Ended(t) == frame[t].pc \in {"done", "fault"}
Returned(t) == frame[t].pc = "done"
AllFuncs(s) == Range(s) \subseteq Funcs
\* The step is one of thread t's call: t is inside a call, or enters one.
Acts(t) == frame[t].pc \notin {"idle", "done", "fault"} \/ frame'[t] # frame[t]

\* C1: Invoke on a non-empty sequence of callables calls every stored target
\* exactly once, in insertion order, and returns the result of the last one,
\* in both templates.
InvokeCallsAllReturnsLast ==
    \A t \in Threads :
        LET L == List(frame[t].this)
        IN  (/\ frame[t].op = "Invoke"
             /\ Ended(t)
             /\ L # <<>>
             /\ AllFuncs(L))
            => /\ Returned(t)
               /\ frame[t].calls = L
               /\ ret[t] = [status |-> "ok", value |-> Result(L[Len(L)])]

\* C1 witness: an Invoke has returned from a delegate that holds two
\* different targets.
InvokeCallsAllReturnsLastWitness ==
    \E t \in Threads :
        /\ frame[t].op = "Invoke"
        /\ Returned(t)
        /\ List(frame[t].this) = <<"f1", "f2">>
        /\ frame[t].calls = <<"f1", "f2">>
        /\ ret[t].value = Result("f2")

\* C2: Remove(callable) f ends without error and leaves exactly the targets
\* not equal to f, in their original order, in both templates.
RemoveFuncLeavesTheOthers ==
    \A t \in Threads :
        (frame[t].op = "RemoveFunc" /\ Ended(t))
        => /\ Returned(t)
           /\ List(frame[t].this) = Without(frame[t].old, frame[t].func)

CombineDelegateConcatenates ==
    \A t \in Threads :
        (frame[t].op = "CombineDelegate" /\ Ended(t))
        => /\ Returned(t)
           /\ List(Tmp(t)) = frame[t].old \o List(frame[t].right)

\* C5: operator+ and operator-, with a callable or a delegate argument, leave
\* the sequence and the lock policy of every named delegate (this and the
\* argument among them) unchanged; only the returned delegate is written.
PureOperatorsChangeNothing ==
    [][\A t \in Threads :
          (Acts(t) /\ frame'[t].op \in PureOps)
          => \A o \in Objs :
                 /\ List(o)' = List(o)
                 /\ m_lockPolicy'[o] = m_lockPolicy[o]]_vars

\* C5 witness: operator- has returned a delegate that differs from this.
PureOperatorsWitness ==
    \E t \in Threads :
        /\ frame[t].op = "SubtractDelegate"
        /\ Returned(t)
        /\ frame[t].right # frame[t].this
        /\ List(frame[t].this) = <<"f1", "f2">>
        /\ List(Tmp(t)) # List(frame[t].this)
        /\ m_lockPolicy[Tmp(t)] = m_lockPolicy[frame[t].this]

\* C6: a copy-constructed delegate holds the source's sequence, and after
\* that a step of any call changes the sequence of no delegate but the one
\* the call works on: mutating the copy leaves the source as it was, and the
\* reverse.
CopyEqualsSource ==
    \A t \in Threads :
        (frame[t].op = "CopyConstruct" /\ Returned(t))
        => List(frame[t].this) = List(frame[t].right)
CopyIsIndependent ==
    [][/\ CopyEqualsSource'
       /\ \A o \in Objs :
              List(o)' # List(o)
              => \E t \in Threads : Acts(t) /\ frame'[t].self = o]_vars

\* C6 witness: a mutating call on a delegate that was just copied from has
\* returned, and the copy still holds what the source held at the copy.
CopyIsIndependentWitness ==
    \E t \in Threads :
        /\ frame[t].op \in MutatingOps
        /\ Returned(t)
        /\ frame[t].prev # <<>>
        /\ frame[t].prev[1] = "CopyConstruct"
        /\ frame[t].this = frame[t].prev[3]
        /\ List(frame[t].prev[2]) = frame[t].old
        /\ List(frame[t].this) # frame[t].old

\* C7: Index(i) returns the i-th target for every i < count and ends in a
\* range violation, returning no target, for every i >= count.
IndexInRangeOrRangeError ==
    \A t \in Threads :
        LET L == List(frame[t].this)
            i == frame[t].idx
        IN  (frame[t].op = "Index" /\ Ended(t))
            => IF i < Len(L)
               THEN ret[t] = [status |-> "ok", value |-> L[i + 1]]
               ELSE ret[t] = [status |-> "range_error", value |-> NoValue]

\* C7 witness: Index(count) on a delegate of two targets has ended in a
\* range violation.
IndexWitness ==
    \E t \in Threads :
        /\ frame[t].op = "Index"
        /\ Len(List(frame[t].this)) = 2
        /\ frame[t].idx = 2
        /\ ret[t].status = "range_error"

\* C8: Invoke on a delegate with no target never returns normally.
InvokeOnEmptyNeverReturns ==
    \A t \in Threads :
        (frame[t].op = "Invoke" /\ frame[t].old = <<>>) => ~Returned(t)

\* The pcs of the body of a mutating operator, from the lock statement's
\* end to the end of the scope.
BodyPcs == {"copy", "clear", "push", "app", "rem", "remo", "remi", "return"}
\* Thread t is inside the body of a mutating operator called on delegate o.
InBody(t, o) ==
    /\ frame[t].op \in MutatingOps
    /\ frame[t].self = o
    /\ frame[t].pc \in BodyPcs

\* C9: on a delegate built with the mutex or the critical-section policy at
\* most one thread at a time is inside the body of a mutating operator, and
\* a thread that has returned from its call holds no lock.
MutatorsExcludeEachOther ==
    /\ \A o \in Objs :
           Lockable(o)
           => \A t, u \in Threads : (InBody(t, o) /\ InBody(u, o)) => t = u
    /\ \A t \in Threads :
           frame[t].pc \in {"idle", "done"} => \A l \in AllObjs : held[l] # t

\* C9 witness: one thread is inside operator=(func) on a lockable delegate,
\* between clear and push_back, while the other waits at the lock statement
\* of a mutating operator on the same delegate.
MutatorsExcludeEachOtherWitness ==
    \E t, u \in Threads, o \in Objs :
        /\ t # u
        /\ Lockable(o)
        /\ InBody(t, o)
        /\ frame[t].pc = "push"
        /\ frame[t].op = "AssignFunc"
        /\ frame[u].op \in MutatingOps
        /\ frame[u].self = o
        /\ frame[u].pc = "lock"

\* Thread t's step reads or writes the sequence of delegate o as part of a
\* structural operation: the copy constructor (operator+, operator-, a
\* copy), the vector assignment of operator=, a turn of a loop over right,
\* or a statement of a mutating body.
ActsOn(t, o) ==
    \/ /\ frame[t].pc \in {"idle", "done"}
       /\ frame'[t] # frame[t]
       /\ \/ frame'[t].op \in PureOps /\ frame'[t].this = o
          \/ frame'[t].op = "CopyConstruct" /\ frame'[t].right = o
    \/ /\ frame[t].pc \in {"copy", "app", "remo", "remi"}
       /\ frame[t].right = o
       /\ frame'[t] # frame[t] \/ heap' # heap
    \/ /\ frame[t].pc \in BodyPcs \ {"return"}
       /\ frame[t].self = o
       /\ frame'[t] # frame[t] \/ heap' # heap

\* C10: while a thread is between the clear and the push_back of
\* operator=(func) on a lockable delegate that held targets, no other
\* thread's structural operation acts on that delegate's empty sequence.
AssignFuncIsAtomic ==
    [][\A t, u \in Threads, o \in Objs :
          (/\ t # u
           /\ Lockable(o)
           /\ frame[u].op = "AssignFunc"
           /\ frame[u].self = o
           /\ frame[u].pc = "push"
           /\ frame[u].old # <<>>
           /\ List(o) = <<>>
           /\ frame'[u] = frame[u])
          => ~ActsOn(t, o)]_vars

\* C11: when the k-th target throws during Invoke, the exception reaches the
\* caller at that call: the targets 1..k were called once each in order, no
\* later target is called, and the delegate's sequence is as it was.
TargetFailurePropagates ==
    \A t \in Threads :
        (frame[t].op = "Invoke" /\ ret[t].status = "exception")
        => LET k == Len(frame[t].calls)
           IN  /\ frame[t].pc = "raised"
               /\ k \in 1..Len(frame[t].old)
               /\ frame[t].calls = SubSeq(frame[t].old, 1, k)
               /\ frame[t].old[k] = Raiser
               /\ ret[t].value = <<Raiser>>
               /\ List(frame[t].this) = frame[t].old

\* C11 witness: the first of two targets has thrown; the second was not
\* called.
TargetFailureWitness ==
    \E t \in Threads :
        /\ frame[t].op = "Invoke"
        /\ frame[t].pc = "raised"
        /\ frame[t].old = <<Raiser, "f1">>
        /\ frame[t].calls = <<Raiser>>
        /\ List(frame[t].this) = <<Raiser, "f1">>

\* The sequence s without the elements equal to an element of r.
WithoutAll(s, r) == SelectSeq(s, LAMBDA x : x \notin Range(r))

\* C12: for distinct delegates this and other, Remove(other) ends without
\* error and leaves in this exactly the original targets that equal no target
\* of other, in their original order, in both templates.
RemoveDelegateFilters ==
    \A t \in Threads :
        (/\ frame[t].op = "RemoveDelegate"
         /\ frame[t].right # frame[t].this
         /\ Ended(t))
        => /\ Returned(t)
           /\ List(frame[t].this) = WithoutAll(frame[t].old, List(frame[t].right))

\* C13: the policy tag and the lock instance of a named delegate change in
\* no step but the one that constructs the delegate; operator=(b) with a b
\* of another policy leaves them as they were.
LockFixedAtConstruction ==
    [][\A o \in Objs :
          (m_lockPolicy'[o] # m_lockPolicy[o] \/ m_lock'[o] # m_lock[o])
          => \E t \in Threads :
                 /\ frame'[t] # frame[t]
                 /\ frame'[t].op = "CopyConstruct"
                 /\ frame'[t].this = o]_vars

\* C13 witness: operator=(b) has returned on a delegate whose policy differs
\* from b's, with b's targets taken over and the delegate's own tag kept.
LockFixedWitness ==
    \E t \in Threads :
        /\ frame[t].op = "AssignDelegate"
        /\ Returned(t)
        /\ frame[t].this = "a"
        /\ frame[t].right = "b"
        /\ m_lockPolicy["a"] = LOCK_POLICY_CRITICALSECTION
        /\ m_lockPolicy["b"] = LOCK_POLICY_NONE
        /\ frame[t].old # List("a")
        /\ List("a") = List("b")

\* C14: a copy-constructed delegate (the ret of operator+ and operator-, or
\* a named copy) has the policy tag of its source and a lock instance of its
\* own: a thread at the lock statement of a mutating operator waits only for
\* a thread that works on the same delegate, so a holder of the source's lock
\* never blocks an operation on the copy, nor the reverse.
CopyHasOwnLock ==
    \A t \in Threads :
        /\ (frame[t].op \in PureOps \cup {"CopyConstruct"}
            /\ frame[t].pc \notin {"idle", "fault"})
           => LET copy == frame[t].self
                  source == IF frame[t].op = "CopyConstruct"
                            THEN frame[t].right ELSE frame[t].this
              IN  /\ m_lockPolicy[copy] = m_lockPolicy[source]
                  /\ m_lock[copy] # m_lock[source]
        /\ (frame[t].pc = "lock" /\ held[m_lock[frame[t].self]] # Free)
           => frame[held[m_lock[frame[t].self]]].self = frame[t].self

\* C14 witness: one thread holds the lock of a inside a mutating operator on
\* a while the other holds the lock of its copy of a inside the compound
\* operator that operator+ or operator- runs on the copy.
CopyHasOwnLockWitness ==
    \E t, u \in Threads :
        /\ t # u
        /\ Lockable("a")
        /\ InBody(t, "a")
        /\ held[m_lock["a"]] = t
        /\ frame[u].op \in PureOps
        /\ frame[u].this = "a"
        /\ frame[u].pc \in BodyPcs
        /\ Lockable(frame[u].self)
        /\ held[m_lock[frame[u].self]] = u

\* C15: the free function f + d returns a delegate that holds f followed by
\* d's targets in order, and d is as it was.
PrependFuncConcatenates ==
    \A t \in Threads :
        (frame[t].op = "PrependFunc" /\ Ended(t))
        => /\ Returned(t)
           /\ List(Tmp(t)) = <<frame[t].func>> \o frame[t].old
           /\ List(frame[t].right) = frame[t].old

\* C16: operator() has no lock statement: a thread inside Invoke holds no
\* lock and is never at a lock statement, and while it is in the loop its
\* next step can be taken whoever holds the delegate's lock.
InvokeTakesNoLock ==
    \A t \in Threads :
        frame[t].op = "Invoke"
        => /\ frame[t].pc \in {"inv", "done", "raised", "fault"}
           /\ \A l \in AllObjs : held[l] # t
           /\ (frame[t].pc = "inv" /\ ~Crashed) => ENABLED InvokeLoop(t)

\* C16 witness: one thread has called the first of two targets in Invoke
\* while the other holds the delegate's lock inside operator-=(func).
InvokeDuringMutationWitness ==
    \E t, u \in Threads :
        /\ t # u
        /\ Lockable("a")
        /\ frame[u].op = "RemoveFunc"
        /\ InBody(u, "a")
        /\ held[m_lock["a"]] = u
        /\ frame[t].op = "Invoke"
        /\ frame[t].self = "a"
        /\ frame[t].pc = "inv"
        /\ frame[t].calls = <<"f1">>
        /\ frame[t].old = <<"f1", "f2">>

\* C17: d += d ends by returning, with d holding its original sequence
\* followed by one more copy of it.
AppendSelfDoubles ==
    \A t \in Threads :
        (/\ frame[t].op = "AppendDelegate"
         /\ frame[t].right = frame[t].this
         /\ Ended(t))
        => /\ Returned(t)
           /\ List(frame[t].this) = frame[t].old \o frame[t].old

\* C18: d -= d ends by returning, without moving an iterator past the end of
\* the sequence, and leaves d empty.
RemoveSelfEmpties ==
    \A t \in Threads :
        (/\ frame[t].op = "RemoveDelegate"
         /\ frame[t].right = frame[t].this
         /\ Ended(t))
        => /\ Returned(t)
           /\ List(frame[t].this) = <<>>

\* Threads 1 and 2 are in a += b and b += a.
CrossAppends ==
    /\ frame[1].op = "AppendDelegate" /\ frame[1].this = "a" /\ frame[1].right = "b"
    /\ frame[2].op = "AppendDelegate" /\ frame[2].this = "b" /\ frame[2].right = "a"
\* The next push of thread t is one the model's length bound leaves out.
AtBound(t) ==
    /\ frame[t].pc = "app"
    /\ frame[t].rightIter <= Len(List(frame[t].right))
    /\ Len(List(frame[t].self)) >= MaxLen

\* C19: a thread holds no lock but that of the delegate its operator works
\* on and waits for no other lock, and with d1 += d2 and d2 += d1 running in
\* two fairly scheduled threads both calls return in the end (as far as the
\* length bound lets the pushes go).
CrossAppendsComplete ==
    /\ [](\A t \in Threads, l \in AllObjs :
             held[l] = t => (/\ frame[t].pc \in BodyPcs \cup {"fault"}
                             /\ l = m_lock[frame[t].self]))
    /\ (CrossAppends ~> (\/ Returned(1) /\ Returned(2)
                         \/ AtBound(1)
                         \/ AtBound(2)))

\* The sequence s without its first j elements equal to g.
RECURSIVE RemoveFirst(_, _, _)
RemoveFirst(s, g, j) ==
    IF j = 0 \/ s = <<>>
    THEN s
    ELSE IF Head(s) = g
         THEN RemoveFirst(Tail(s), g, j - 1)
         ELSE <<Head(s)>> \o RemoveFirst(Tail(s), g, j)
\* The sequences delegate r holds in the course of the program when thread u
\* is the only one that writes it: what it holds now when u has made no call
\* on it, else every sequence u's operator=(func), operator+=(func) or
\* operator-=(func) takes it through.
HeldBy(u, r) ==
    LET fr == frame[u]
    IN  IF fr.self # r
        THEN {List(r)}
        ELSE CASE fr.op = "AssignFunc" -> {fr.old, <<>>, <<fr.func>>}
               [] fr.op = "AppendFunc" -> {fr.old, Append(fr.old, fr.func)}
               [] fr.op = "RemoveFunc" ->
                      {RemoveFirst(fr.old, fr.func, j) : j \in 0..Len(fr.old)}
\* Thread u is the only writer of r, with one of the three operators, and
\* does not write o.
OnlyWriter(u, r, o) ==
    /\ frame[u].self # o
    /\ frame[u].self = r => frame[u].op \in {"AssignFunc", "AppendFunc", "RemoveFunc"}

\* C20: what operator=(other), operator+=(other) and the copy constructor
\* have read from other when they return is a sequence that other held at
\* one moment, also when another thread runs a locked operator=(func),
\* operator+=(func) or operator-=(func) on other meanwhile.
SnapshotIsConsistent ==
    \A t, u \in Threads :
        LET fr == frame[t]
        IN  (/\ t # u
             /\ fr.op \in {"AssignDelegate", "AppendDelegate", "CopyConstruct"}
             /\ Returned(t)
             /\ fr.right # fr.this
             /\ Lockable(fr.right)
             /\ OnlyWriter(u, fr.right, fr.this))
            => IF fr.op = "AppendDelegate"
               THEN fr.seen \in HeldBy(u, fr.right)
               ELSE List(fr.this) \in HeldBy(u, fr.right)

\* C21: after the two templates have been taken through the same call from
\* equal sequences, both calls have ended the same way (both returned, or
\* both failed the same way) and the delegates, and the delegates returned
\* by operator+ and operator-, hold equal sequences.
TemplatesEquivalent ==
    (/\ started[1] = 1
     /\ started[2] = 1
     /\ \A t \in Threads : frame[t].pc \in {"done", "raised", "fault"})
    => /\ ret[1].status = ret[2].status
       /\ List(Own(1)) = List(Own(2))
       /\ List(Tmp(1)) = List(Tmp(2))
====
